---- MODULE Spec2Model ----
(***************************************************************************)
(* A model of the two command-line tools of log_analyzer:                  *)
(*   log_analyzer.py    the metrics tool  (collect, evaluate, report)      *)
(*   log_analyzer_1.py  the log tool      (scan a log file, report)        *)
(*                                                                         *)
(* Python strings are modelled as sequences of one-character strings, so   *)
(* that parsing, stripping, case folding and substring search are computed *)
(* the way the interpreter computes them.  Floats are fixed-point numbers  *)
(* in thousandths (55.3 is 55300); the temperature, which the code obtains *)
(* as int(raw) / 1000.0, is therefore exactly the raw integer.             *)
(***************************************************************************)
EXTENDS Integers, Sequences, FiniteSets, TLC

VARIABLES ms_pc, ms_raw, ms_summary, ms_alerts

ms_vars == <<ms_pc, ms_raw, ms_summary, ms_alerts>>

VARIABLES sc_pc, sc_file, sc_keywords, sc_i, sc_counts, sc_percent, sc_summary

sc_vars == <<sc_pc, sc_file, sc_keywords, sc_i, sc_counts, sc_percent, sc_summary>>

VARIABLES pc, run, run_summary, run_alerts, run_counts, history, history0, before,
          clock, fx, appended, saves, monitor_log

run_vars ==
    <<pc, run, run_summary, run_alerts, run_counts, history, history0, before,
      clock, fx, appended, saves, monitor_log>>

vars == <<ms_vars, sc_vars, run_vars>>

-----------------------------------------------------------------------------
(* Python string primitives *)

DigitChars == <<"0", "1", "2", "3", "4", "5", "6", "7", "8", "9">>

IsDigit(c) == \E i \in 1..10 : DigitChars[i] = c

DigitVal(c) == (CHOOSE i \in 1..10 : DigitChars[i] = c) - 1

IsSpace(c) == c \in {" ", "\n", "\t"}

AllDigits(s) == \A i \in 1..Len(s) : IsDigit(s[i])

RECURSIVE DecimalValue(_)
DecimalValue(s) ==
    IF s = <<>> THEN 0
    ELSE 10 * DecimalValue(SubSeq(s, 1, Len(s) - 1)) + DigitVal(s[Len(s)])

RECURSIVE LStrip(_)
LStrip(s) == IF s # <<>> /\ IsSpace(Head(s)) THEN LStrip(Tail(s)) ELSE s

RECURSIVE RStrip(_)
RStrip(s) ==
    IF s # <<>> /\ IsSpace(s[Len(s)]) THEN RStrip(SubSeq(s, 1, Len(s) - 1)) ELSE s

\* str.strip()
Strip(s) == RStrip(LStrip(s))

\* str.replace(c, '')
RemoveChar(s, c) == SelectSeq(s, LAMBDA x : x # c)

\* int(s): surrounding whitespace and one sign are accepted, then one or
\* more decimal digits; anything else raises ValueError (ok = FALSE).
PyInt(s) ==
    LET t    == Strip(s)
        sgn  == t # <<>> /\ Head(t) \in {"-", "+"}
        body == IF sgn THEN Tail(t) ELSE t
        mag  == DecimalValue(body)
    IN  IF body # <<>> /\ AllDigits(body)
        THEN [ok |-> TRUE, val |-> IF sgn /\ Head(t) = "-" THEN 0 - mag ELSE mag]
        ELSE [ok |-> FALSE, val |-> 0]

\* The divisor of check_cpu_temperature, and the resolution of every float
\* of the model.
MilliPerUnit == 1000

RECURSIVE PadRight(_, _)
PadRight(s, n) == IF Len(s) >= n THEN s ELSE PadRight(Append(s, "0"), n)

\* float(s) for plain decimal numerals (digits with at most one point and
\* at most three fractional digits), in thousandths; anything else raises
\* ValueError (ok = FALSE).
PyFloat(s) ==
    LET t     == Strip(s)
        sgn   == t # <<>> /\ Head(t) \in {"-", "+"}
        body  == IF sgn THEN Tail(t) ELSE t
        dots  == {i \in 1..Len(body) : body[i] = "."}
        dot   == IF dots = {} THEN Len(body) + 1 ELSE CHOOSE i \in dots : TRUE
        whole == SubSeq(body, 1, dot - 1)
        frac  == SubSeq(body, dot + 1, Len(body))
        mag   == DecimalValue(whole) * MilliPerUnit + DecimalValue(PadRight(frac, 3))
    IN  IF /\ Cardinality(dots) <= 1
           /\ AllDigits(whole) /\ AllDigits(frac)
           /\ Len(whole) + Len(frac) > 0
           /\ Len(frac) <= 3
        THEN [ok |-> TRUE, val |-> IF sgn /\ Head(t) = "-" THEN 0 - mag ELSE mag]
        ELSE [ok |-> FALSE, val |-> 0]

-----------------------------------------------------------------------------
(* log_analyzer.py: the metric sub-queries.  Each takes what                *)
(* subprocess.getoutput returned: the command's output text, or the        *)
(* shell's error text when the command is unavailable (getoutput does not  *)
(* raise on a failing command, and the exit status is discarded).          *)

Active == <<"a", "c", "t", "i", "v", "e">>
Inactive == <<"i", "n", "a", "c", "t", "i", "v", "e">>
Unknown == <<"u", "n", "k", "n", "o", "w", "n">>
ShNotFound == <<"s", "h", ":", " ", "n", "o", "t", " ", "f", "o", "u", "n", "d">>

None == [some |-> FALSE, val |-> 0]
Some(v) == [some |-> TRUE, val |-> v]

get_cpu_usage(output) ==
    LET r == PyFloat(output) IN IF r.ok THEN r.val ELSE 0

get_memory_usage(output) ==
    LET r == PyFloat(output) IN IF r.ok THEN r.val ELSE 0

get_disk_usage(output) == Strip(output)

\* int(temp_raw) / 1000.0, kept in thousandths of a degree.
check_cpu_temperature(temp_raw) ==
    LET r == PyInt(temp_raw) IN IF r.ok THEN Some(r.val) ELSE None

\* The except branch ("unknown") is taken only if getoutput itself raises,
\* which a failing or missing command does not make it do.
check_service_status(status) == Strip(status)

-----------------------------------------------------------------------------
(* log_analyzer.py: monitor_system, the threshold evaluation *)

TempThreshold == 70
DiskThreshold == 90
CpuThreshold == 50
MemThreshold == 70

AlertTemp == "WARNING: CPU temperature is high"
AlertDisk == "ERROR: Disk usage exceeds threshold"
AlertService == "CRITICAL: Service failed to start"
AlertCpu == "WARNING: CPU usage is above 50%"
AlertMem == "WARNING: Memory usage is above 70%"

\* disk_percent = 0; try: disk_percent = int(disk.replace('%', '')); except: pass
disk_percent(disk) ==
    LET r == PyInt(RemoveChar(disk, "%")) IN IF r.ok THEN r.val ELSE 0

\* A mutation of Alerts: the CPU rule compares with >= instead of >.
AlertsCpuInclusive(summary) ==
    LET a1 == IF summary.cpu_temperature_celsius.some
                 /\ summary.cpu_temperature_celsius.val > TempThreshold * MilliPerUnit
              THEN <<AlertTemp>> ELSE <<>>
        a2 == IF disk_percent(summary.disk_usage) > DiskThreshold
              THEN Append(a1, AlertDisk) ELSE a1
        a3 == IF summary.service_status # Active
              THEN Append(a2, AlertService) ELSE a2
        a4 == IF summary.cpu_usage_percent >= CpuThreshold * MilliPerUnit
              THEN Append(a3, AlertCpu) ELSE a3
    IN  IF summary.memory_usage_percent > MemThreshold * MilliPerUnit
        THEN Append(a4, AlertMem) ELSE a4

\* The alerts list after the five if-statements, each appending in turn.
Alerts(summary) ==
    LET a1 == IF summary.cpu_temperature_celsius.some
                 /\ summary.cpu_temperature_celsius.val > TempThreshold * MilliPerUnit
              THEN <<AlertTemp>> ELSE <<>>
        a2 == IF disk_percent(summary.disk_usage) > DiskThreshold
              THEN Append(a1, AlertDisk) ELSE a1
        a3 == IF summary.service_status # Active
              THEN Append(a2, AlertService) ELSE a2
        a4 == IF summary.cpu_usage_percent > CpuThreshold * MilliPerUnit
              THEN Append(a3, AlertCpu) ELSE a3
    IN  IF summary.memory_usage_percent > MemThreshold * MilliPerUnit
        THEN Append(a4, AlertMem) ELSE a4

-----------------------------------------------------------------------------
(* What the operating system answers to the sub-queries.  failed marks an  *)
(* answer of a sub-query that did not deliver its metric: the command is   *)
(* unavailable (the shell's error text comes back) or printed no number.   *)

Answer(o) == [failed |-> FALSE, out |-> o]
Failure(o) == [failed |-> TRUE, out |-> o]
NotAsked == [failed |-> FALSE, out |-> <<>>]

MaxDiskLen == 3

DiskChars == {"9", "0", "1", "%", "x"}

RECURSIVE StringsUpTo(_, _)
StringsUpTo(chars, n) ==
    IF n = 0 THEN {<<>>}
    ELSE LET shorter == StringsUpTo(chars, n - 1)
         IN  shorter \cup {Append(s, c) : s \in shorter, c \in chars}

CpuAnswers ==
    { Answer(<<"5", "0", ".", "0">>), Answer(<<"5", "0", ".", "1">>),
      Failure(<<>>), Failure(ShNotFound) }

MemAnswers ==
    { Answer(<<"7", "0", ".", "0">>), Answer(<<"7", "0", ".", "1">>),
      Failure(ShNotFound) }

DiskAnswers == { Answer(s) : s \in StringsUpTo(DiskChars, MaxDiskLen) }

TempAnswers ==
    { Answer(<<"7", "0", "0", "0", "0">>), Answer(<<"7", "0", "0", "0", "1">>),
      Failure(ShNotFound) }

ServiceAnswers == { Answer(Active), Answer(Inactive), Failure(ShNotFound) }

NoSummary ==
    [ cpu_usage_percent |-> 0, memory_usage_percent |-> 0, disk_usage |-> <<>>,
      cpu_temperature_celsius |-> None, service_status |-> <<>> ]

NoAnswers ==
    [ cpu |-> NotAsked, mem |-> NotAsked, disk |-> NotAsked,
      temp |-> NotAsked, service |-> NotAsked ]

\* monitor_system as a whole: the five sub-queries, then the summary record.
Snapshot(raw) ==
    [ cpu_usage_percent |-> get_cpu_usage(raw.cpu.out),
      memory_usage_percent |-> get_memory_usage(raw.mem.out),
      disk_usage |-> get_disk_usage(raw.disk.out),
      cpu_temperature_celsius |-> check_cpu_temperature(raw.temp.out),
      service_status |-> check_service_status(raw.service.out) ]

-----------------------------------------------------------------------------
(* SpecEval: one call of monitor_system, sub-query by sub-query *)

EvalStart ==
    /\ ms_pc = "cpu"
    /\ ms_raw = NoAnswers
    /\ ms_summary = NoSummary
    /\ ms_alerts = <<>>

QueryCpu ==
    /\ ms_pc = "cpu"
    /\ \E a \in CpuAnswers :
          /\ ms_raw' = [ms_raw EXCEPT !.cpu = a]
          /\ ms_summary' = [ms_summary EXCEPT !.cpu_usage_percent = get_cpu_usage(a.out)]
    /\ ms_pc' = "mem"
    /\ UNCHANGED <<ms_alerts, sc_vars, run_vars>>

QueryMem ==
    /\ ms_pc = "mem"
    /\ \E a \in MemAnswers :
          /\ ms_raw' = [ms_raw EXCEPT !.mem = a]
          /\ ms_summary' = [ms_summary EXCEPT !.memory_usage_percent = get_memory_usage(a.out)]
    /\ ms_pc' = "disk"
    /\ UNCHANGED <<ms_alerts, sc_vars, run_vars>>

QueryDisk ==
    /\ ms_pc = "disk"
    /\ \E a \in DiskAnswers :
          /\ ms_raw' = [ms_raw EXCEPT !.disk = a]
          /\ ms_summary' = [ms_summary EXCEPT !.disk_usage = get_disk_usage(a.out)]
    /\ ms_pc' = "temp"
    /\ UNCHANGED <<ms_alerts, sc_vars, run_vars>>

QueryTemp ==
    /\ ms_pc = "temp"
    /\ \E a \in TempAnswers :
          /\ ms_raw' = [ms_raw EXCEPT !.temp = a]
          /\ ms_summary' = [ms_summary EXCEPT !.cpu_temperature_celsius = check_cpu_temperature(a.out)]
    /\ ms_pc' = "service"
    /\ UNCHANGED <<ms_alerts, sc_vars, run_vars>>

QueryService ==
    /\ ms_pc = "service"
    /\ \E a \in ServiceAnswers :
          /\ ms_raw' = [ms_raw EXCEPT !.service = a]
          /\ ms_summary' = [ms_summary EXCEPT !.service_status = check_service_status(a.out)]
    /\ ms_pc' = "thresholds"
    /\ UNCHANGED <<ms_alerts, sc_vars, run_vars>>

CheckThresholds ==
    /\ ms_pc = "thresholds"
    /\ ms_alerts' = Alerts(ms_summary)
    /\ ms_pc' = "done"
    /\ UNCHANGED <<ms_raw, ms_summary, sc_vars, run_vars>>

NextEval ==
    \/ QueryCpu
    \/ QueryMem
    \/ QueryDisk
    \/ QueryTemp
    \/ QueryService
    \/ CheckThresholds

-----------------------------------------------------------------------------
(* Claims about the metrics tool's collection and evaluation (SpecEval) *)

RECURSIVE ReadDigits(_, _)
ReadDigits(s, acc) ==
    IF s = <<>> THEN acc ELSE ReadDigits(Tail(s), 10 * acc + DigitVal(Head(s)))

\* The disk string read as an integer percent: its percent signs dropped,
\* the digits read from the left; 0 when that is not a numeral.
DiskReading(disk) ==
    LET d == RemoveChar(disk, "%")
    IN  IF d # <<>> /\ AllDigits(d) THEN ReadDigits(d, 0) ELSE 0

\* The rule table of the evaluator, in table order.
RuleAlert == <<AlertTemp, AlertDisk, AlertService, AlertCpu, AlertMem>>

RuleHolds(r, s) ==
    CASE r = 1 -> s.cpu_temperature_celsius.some
                  /\ s.cpu_temperature_celsius.val > TempThreshold * MilliPerUnit
      [] r = 2 -> DiskReading(s.disk_usage) > DiskThreshold
      [] r = 3 -> s.service_status # Active
      [] r = 4 -> s.cpu_usage_percent > CpuThreshold * MilliPerUnit
      [] r = 5 -> s.memory_usage_percent > MemThreshold * MilliPerUnit

ExpectedAlerts(s) ==
    LET held == SelectSeq(<<1, 2, 3, 4, 5>>, LAMBDA r : RuleHolds(r, s))
    IN  [i \in 1..Len(held) |-> RuleAlert[held[i]]]

\* C1: the AlertList of monitor_system is exactly the alerts of the rule
\* table whose conditions hold for the Snapshot, in table order, every rule
\* evaluated on its own, each alert at most once, the comparisons strict and
\* an unparseable disk string counting as 0.
C1_AlertsAreRuleTable ==
    ms_pc = "done" => ms_alerts = ExpectedAlerts(ms_summary)

\* C1 witness: cpu 50.1, memory exactly 70, disk "91%", temperature 70.001,
\* service inactive: four alerts, the memory alert absent.
C1_Witness ==
    /\ ms_pc = "done"
    /\ ms_summary.cpu_usage_percent = 50100
    /\ ms_summary.memory_usage_percent = 70000
    /\ ms_summary.disk_usage = <<"9", "1", "%">>
    /\ ms_summary.cpu_temperature_celsius = Some(70001)
    /\ ms_summary.service_status = Inactive
    /\ ms_alerts = <<AlertTemp, AlertDisk, AlertService, AlertCpu>>

\* C9: a failed sub-query leaves the documented default in the Snapshot:
\* 0.0 for the cpu and memory percentages, "unknown" for service_status,
\* absent for the temperature.
C9_FailedQueryGivesDefault ==
    ms_pc \in {"thresholds", "done"} =>
        /\ ms_raw.cpu.failed => ms_summary.cpu_usage_percent = 0
        /\ ms_raw.mem.failed => ms_summary.memory_usage_percent = 0
        /\ ms_raw.temp.failed => ms_summary.cpu_temperature_celsius = None
        /\ ms_raw.service.failed => ms_summary.service_status = Unknown

-----------------------------------------------------------------------------
(* log_analyzer_1.py: analyze_logs, the keyword scan and the summary *)

UpperChars ==
    <<"A", "B", "C", "D", "E", "F", "G", "H", "I", "J", "K", "L", "M",
      "N", "O", "P", "Q", "R", "S", "T", "U", "V", "W", "X", "Y", "Z">>

LowerChars ==
    <<"a", "b", "c", "d", "e", "f", "g", "h", "i", "j", "k", "l", "m",
      "n", "o", "p", "q", "r", "s", "t", "u", "v", "w", "x", "y", "z">>

LowerChar(c) ==
    IF \E i \in 1..26 : UpperChars[i] = c
    THEN LowerChars[CHOOSE i \in 1..26 : UpperChars[i] = c]
    ELSE c

\* str.lower()
Lower(s) == [i \in 1..Len(s) |-> LowerChar(s[i])]

\* needle in hay
Contains(hay, needle) ==
    \E i \in 0..(Len(hay) - Len(needle)) : SubSeq(hay, i + 1, i + Len(needle)) = needle

\* collections.Counter: a mapping whose missing keys read as 0.
EmptyCounter == [k \in {} |-> 0]

CounterGet(counts, k) == IF k \in DOMAIN counts THEN counts[k] ELSE 0

CounterInc(counts, k) ==
    [x \in DOMAIN counts \cup {k} |-> IF x = k THEN CounterGet(counts, k) + 1 ELSE counts[x]]

\* for keyword in args.keywords: if keyword.lower() in line.lower(): counts[keyword] += 1
RECURSIVE ScanKeywords(_, _, _)
ScanKeywords(counts, line, keywords) ==
    IF keywords = <<>> THEN counts
    ELSE ScanKeywords(IF Contains(Lower(line), Lower(Head(keywords)))
                      THEN CounterInc(counts, Head(keywords))
                      ELSE counts,
                      line, Tail(keywords))

\* for line in lines: ...
RECURSIVE ScanLines(_, _, _)
ScanLines(counts, lines, keywords) ==
    IF lines = <<>> THEN counts
    ELSE ScanLines(ScanKeywords(counts, Head(lines), keywords), Tail(lines), keywords)

RECURSIVE SumOver(_, _)
SumOver(f, S) ==
    IF S = {} THEN 0
    ELSE LET x == CHOOSE y \in S : TRUE IN f[x] + SumOver(f, S \ {x})

\* A mutation of Total: the number of counted keywords, not the sum of
\* their counts.
TotalOfKeys(counts) == Cardinality(DOMAIN counts)

\* total = sum(counts.values())
Total(counts) == SumOver(counts, DOMAIN counts)

\* percent = ((count / total) * 100) if total > 0 else 0, as the exact
\* fraction num / den.
Percent(count, total) ==
    IF total > 0 THEN [num |-> count * 100, den |-> total] ELSE [num |-> 0, den |-> 1]

\* f"{percent:.1f}": the tenths of a percent, rounded half to even.
FormatTenths(p) ==
    LET q == (p.num * 10) \div p.den
        r == (p.num * 10) % p.den
    IN  IF 2 * r > p.den \/ (2 * r = p.den /\ q % 2 = 1) THEN q + 1 ELSE q

\* bar = "#" * (int(percent) // 4): the length of the bar.
BarLength(p) == (p.num \div p.den) \div 4

Range(seq) == {seq[i] : i \in 1..Len(seq)}

\* The values of the local percent in the summary loop, by keyword.
Percents(keywords, counts) ==
    [k \in Range(keywords) |-> Percent(CounterGet(counts, k), Total(counts))]

\* log_summary["summary"]: one entry per configured keyword, a repeated
\* keyword overwriting its own entry.
Summary(keywords, counts) ==
    [k \in Range(keywords) |->
        [ count |-> CounterGet(counts, k),
          percentage |-> [ tenths |-> FormatTenths(Percent(CounterGet(counts, k), Total(counts))),
                           bar |-> BarLength(Percent(CounterGet(counts, k), Total(counts))) ] ]]

\* f.readlines(): every line keeps its line break.
ReadLines(file) == [i \in 1..Len(file) |-> Append(file[i], "\n")]

-----------------------------------------------------------------------------
(* SpecScan: one scan of a readable log file *)

MaxLines == 2
MaxKeywords == 3

LineErrorDiskFull == 
    <<"E", "R", "R", "O", "R", " ", "d", "i", "s", "k", " ", "f", "u", "l", "l">>
LineWarnLowMemory == 
    <<"w", "a", "r", "n", ":", " ", "l", "o", "w", " ", "m", "e", "m", "o", "r", "y">>
LineAllGood == <<"a", "l", "l", " ", "g", "o", "o", "d">>

LogLines == {LineErrorDiskFull, LineWarnLowMemory, LineAllGood}

KwError == <<"e", "r", "r", "o", "r">>
KwWarn == <<"w", "a", "r", "n">>
KwWarnCapital == <<"W", "a", "r", "n">>
KwO == <<"o">>

Words == {KwError, KwWarn, KwWarnCapital, KwO}

RECURSIVE SeqsUpTo(_, _)
SeqsUpTo(S, n) ==
    IF n = 0 THEN {<<>>}
    ELSE LET shorter == SeqsUpTo(S, n - 1)
         IN  shorter \cup {Append(q, x) : q \in shorter, x \in S}

LogFiles == SeqsUpTo(LogLines, MaxLines)

\* nargs='+': at least one keyword.
KeywordLists == SeqsUpTo(Words, MaxKeywords) \ {<<>>}

ScanStart ==
    /\ sc_pc = "scan"
    /\ sc_file \in LogFiles
    /\ sc_keywords \in KeywordLists
    /\ sc_i = 0
    /\ sc_counts = EmptyCounter
    /\ sc_percent = <<>>
    /\ sc_summary = <<>>

\* One iteration of the loop over the lines.
ScanLine ==
    /\ sc_pc = "scan"
    /\ sc_i < Len(sc_file)
    /\ sc_counts' = ScanKeywords(sc_counts, ReadLines(sc_file)[sc_i + 1], sc_keywords)
    /\ sc_i' = sc_i + 1
    /\ UNCHANGED <<sc_pc, sc_file, sc_keywords, sc_percent, sc_summary, ms_vars, run_vars>>

\* The loop is over: the total, then the summary loop.
Summarise ==
    /\ sc_pc = "scan"
    /\ sc_i = Len(sc_file)
    /\ sc_percent' = Percents(sc_keywords, sc_counts)
    /\ sc_summary' = Summary(sc_keywords, sc_counts)
    /\ sc_pc' = "done"
    /\ UNCHANGED <<sc_file, sc_keywords, sc_i, sc_counts, ms_vars, run_vars>>

NextScan ==
    \/ ScanLine
    \/ Summarise

-----------------------------------------------------------------------------
(* Claims about the log tool's scan and summary (SpecScan) *)

\* The lines of the file that contain k, letter case ignored.
MatchingLines(file, k) ==
    {i \in 1..Len(file) : Contains(Lower(file[i]), Lower(k))}

\* C2: the count reported for each configured keyword is the number of lines
\* that contain it as a case-insensitive substring, whatever the keyword
\* sequence (mixed case, repeated keywords), the summary keyed by the
\* keyword as configured.
C2_CountIsMatchingLines ==
    sc_pc = "done" =>
        /\ DOMAIN sc_summary = Range(sc_keywords)
        /\ \A k \in Range(sc_keywords) :
              sc_summary[k].count = Cardinality(MatchingLines(sc_file, k))

ReportedTotal == SumOver([k \in DOMAIN sc_summary |-> sc_summary[k].count], DOMAIN sc_summary)

Distance(a, b) == IF a >= b THEN a - b ELSE b - a

\* C3: the percentage of a keyword is its count divided by the sum of all
\* reported counts, times 100; the percentages of the summary's keywords add
\* up to 100 when that sum is positive and are all 0 when it is 0.  The
\* string stored in the summary is that percentage to one decimal place.
C3_PercentagesOfTotal ==
    sc_pc = "done" =>
        /\ DOMAIN sc_percent = DOMAIN sc_summary
        /\ ReportedTotal > 0 =>
              /\ \A k \in DOMAIN sc_summary :
                    sc_percent[k].num * ReportedTotal
                        = sc_summary[k].count * 100 * sc_percent[k].den
              /\ \A k \in DOMAIN sc_summary : sc_percent[k].den = ReportedTotal
              /\ SumOver([k \in DOMAIN sc_percent |-> sc_percent[k].num], DOMAIN sc_percent)
                    = 100 * ReportedTotal
        /\ ReportedTotal = 0 =>
              \A k \in DOMAIN sc_summary :
                    sc_percent[k].num = 0 /\ sc_summary[k].percentage.tenths = 0
        /\ \A k \in DOMAIN sc_summary :
              2 * Distance(sc_summary[k].percentage.tenths * sc_percent[k].den,
                           10 * sc_percent[k].num) <= sc_percent[k].den

\* C3 witness: two lines, three keywords of which one is repeated, a total
\* of three: the percentages are of the total, not of the two lines.
C3_Witness ==
    /\ sc_pc = "done"
    /\ sc_file = <<LineErrorDiskFull, LineWarnLowMemory>>
    /\ sc_keywords = <<KwWarn, KwError, KwWarn>>
    /\ ReportedTotal = 3
    /\ sc_summary[KwWarn].count = 2
    /\ sc_summary[KwError].percentage.tenths = 333
    /\ sc_summary[KwWarn].percentage.tenths = 667

-----------------------------------------------------------------------------
(* Python values and JSON documents.  A value carries its type as the name *)
(* of its one field; a dict is the sequence of its items in insertion      *)
(* order.  A JSON document is its parse tree, a number being the text of   *)
(* its literal.                                                            *)

VNone == [none |-> TRUE]
VFloat(n) == [float |-> n]
VInt(n) == [int |-> n]
VStr(s) == [str |-> s]
VChars(s) == [chars |-> s]
VTime(t) == [time |-> t]
VText(t) == [text |-> t]
VList(items) == [list |-> items]
VDict(items) == [dict |-> items]
Item(k, v) == [key |-> k, val |-> v]
Name(n) == [name |-> n]

IsList(v) == "list" \in DOMAIN v

JNull == [jnull |-> TRUE]
JNum(literal) == [jnum |-> literal]
JStr(v) == [jstr |-> v]
JArr(items) == [jarr |-> items]
JObj(items) == [jobj |-> items]

RECURSIVE Numeral(_)
Numeral(n) ==
    IF n < 10 THEN <<DigitChars[n + 1]>>
    ELSE Append(Numeral(n \div 10), DigitChars[(n % 10) + 1])

RECURSIVE DropTrailingZeros(_)
DropTrailingZeros(s) ==
    IF Len(s) > 1 /\ s[Len(s)] = "0" THEN DropTrailingZeros(SubSeq(s, 1, Len(s) - 1)) ELSE s

\* repr(float) of a value in thousandths: 50100 is "50.1", 70000 is "70.0".
RECURSIVE FloatRepr(_)
FloatRepr(n) ==
    IF n < 0 THEN <<"-">> \o FloatRepr(0 - n)
    ELSE LET f == n % MilliPerUnit
             frac == <<DigitChars[(f \div 100) + 1], DigitChars[((f \div 10) % 10) + 1],
                       DigitChars[(f % 10) + 1]>>
         IN  Numeral(n \div MilliPerUnit) \o <<".">> \o DropTrailingZeros(frac)

IntRepr(n) == IF n < 0 THEN <<"-">> \o Numeral(0 - n) ELSE Numeral(n)

\* json.dump
RECURSIVE Dump(_)
Dump(v) ==
    CASE "none" \in DOMAIN v -> JNull
      [] "float" \in DOMAIN v -> JNum(FloatRepr(v.float))
      [] "int" \in DOMAIN v -> JNum(IntRepr(v.int))
      [] "list" \in DOMAIN v -> JArr([i \in 1..Len(v.list) |-> Dump(v.list[i])])
      [] "dict" \in DOMAIN v ->
            JObj([i \in 1..Len(v.dict) |-> Item(v.dict[i].key, Dump(v.dict[i].val))])
      [] OTHER -> JStr(v)

\* json.load of a document that parses
RECURSIVE Load(_)
Load(j) ==
    CASE "jnull" \in DOMAIN j -> VNone
      [] "jnum" \in DOMAIN j ->
            IF \E i \in 1..Len(j.jnum) : j.jnum[i] = "."
            THEN VFloat(PyFloat(j.jnum).val)
            ELSE VInt(PyInt(j.jnum).val)
      [] "jarr" \in DOMAIN j -> VList([i \in 1..Len(j.jarr) |-> Load(j.jarr[i])])
      [] "jobj" \in DOMAIN j ->
            VDict([i \in 1..Len(j.jobj) |-> Item(j.jobj[i].key, Load(j.jobj[i].val))])
      [] OTHER -> j.jstr

\* summary.json: absent, or a text that json.load parses or not.
AbsentFile == [exists |-> FALSE, parses |-> FALSE, doc |-> JNull]
GarbageFile == [exists |-> TRUE, parses |-> FALSE, doc |-> JNull]
JsonFile(doc) == [exists |-> TRUE, parses |-> TRUE, doc |-> doc]

\* existing = []; if os.path.exists(path): try: existing = json.load(f); except: existing = []
LoadExisting(file) ==
    IF file.exists /\ file.parses THEN Load(file.doc) ELSE VList(<<>>)

\* A mutation of Persisted: the file is written with the new entry alone.
PersistedNewOnly(existing, entry) == JsonFile(Dump(VList(<<entry>>)))

\* existing.append(entry); json.dump(existing, f, indent=4)
Persisted(existing, entry) == JsonFile(Dump(VList(Append(existing.list, entry))))

-----------------------------------------------------------------------------
(* The history entries of the two tools *)

\* log_analyzer.py: entry = {"timestamp", "summary", "alerts"}
MetricsEntry(timestamp, summary, alerts) ==
    VDict(<<
        Item(Name("timestamp"), VTime(timestamp)),
        Item(Name("summary"), VDict(<<
            Item(Name("cpu_usage_percent"), VFloat(summary.cpu_usage_percent)),
            Item(Name("memory_usage_percent"), VFloat(summary.memory_usage_percent)),
            Item(Name("disk_usage"), VChars(summary.disk_usage)),
            Item(Name("cpu_temperature_celsius"),
                 IF summary.cpu_temperature_celsius.some
                 THEN VFloat(summary.cpu_temperature_celsius.val) ELSE VNone),
            Item(Name("service_status"), VChars(summary.service_status)) >>)),
        Item(Name("alerts"), VList([i \in 1..Len(alerts) |-> VStr(alerts[i])])) >>)

\* The keys of a dict filled in the order of keywords: each keyword once, at
\* its first place.
RECURSIVE FirstOccurrences(_)
FirstOccurrences(keywords) ==
    IF keywords = <<>> THEN <<>>
    ELSE LET front == FirstOccurrences(SubSeq(keywords, 1, Len(keywords) - 1))
             last  == keywords[Len(keywords)]
         IN  IF last \in Range(front) THEN front ELSE Append(front, last)

\* log_analyzer_1.py: log_summary = {"timestamp", "log_file", "summary"}
LogEntry(timestamp, keywords, summary) ==
    LET keys == FirstOccurrences(keywords)
    IN  VDict(<<
            Item(Name("timestamp"), VTime(timestamp)),
            Item(Name("log_file"), VStr("args.file")),
            Item(Name("summary"), VDict([i \in 1..Len(keys) |->
                Item(VChars(keys[i]), VDict(<<
                    Item(Name("count"), VInt(summary[keys[i]].count)),
                    Item(Name("percentage"), VText(summary[keys[i]].percentage)) >>))])) >>)

-----------------------------------------------------------------------------
(* Spec: sequential invocations of the two tools sharing summary.json *)

MaxRuns == 2

KwCritical == <<"c", "r", "i", "t", "i", "c", "a", "l">>
KwFail == <<"f", "a", "i", "l">>

\* parse_args: default=["warn", "critical", "error", "fail"]
DefaultKeywords == <<KwWarn, KwCritical, KwError, KwFail>>

\* analyze_logs: alert_keywords = ["warn", "fail", "critical", "error"]
alert_keywords == <<KwWarn, KwFail, KwCritical, KwError>>

Flags ==
    { f \in [save_summary : BOOLEAN, get_beep : BOOLEAN, get_email : BOOLEAN,
             recipient : BOOLEAN] : f.recipient => f.get_email }

\* if args.get_email and not args.recipient: parser.error(...)
ArgsValid(f) == ~(f.get_email /\ ~f.recipient)

NoFlags == [save_summary |-> FALSE, get_beep |-> FALSE, get_email |-> FALSE, recipient |-> FALSE]

\* EMAIL_ADDRESS and EMAIL_PASSWORD: set in the environment or not.
Credentials == [address : BOOLEAN, password : BOOLEAN]

\* The environments told apart for a command line: the credentials are read
\* only by send_email, which only --get-email reaches.
CredentialsFor(flags) ==
    IF flags.get_email THEN Credentials ELSE {[address |-> TRUE, password |-> TRUE]}

\* if not EMAIL_ADDRESS or not EMAIL_PASSWORD
CredentialsMissing(creds) == ~creds.address \/ ~creds.password

\* A host under no load whose thermal zone cannot be read, and a hot one.
QuietHost ==
    [ cpu |-> Answer(<<"5", "0", ".", "0">>), mem |-> Answer(<<"7", "0", ".", "0">>),
      disk |-> Answer(<<"9", "0", "%">>), temp |-> Failure(ShNotFound),
      service |-> Answer(Active) ]

HotHost ==
    [ cpu |-> Answer(<<"5", "0", ".", "1">>), mem |-> Answer(<<"7", "0", ".", "0">>),
      disk |-> Answer(<<"9", "1", "%">>), temp |-> Answer(<<"7", "0", "0", "0", "1">>),
      service |-> Answer(Inactive) ]

RunAnswers == {QuietHost, HotHost}

Unreadable == [readable |-> FALSE, lines |-> <<>>]
Readable(lines) == [readable |-> TRUE, lines |-> lines]

RunScans ==
    { [keywords |-> DefaultKeywords, logfile |-> Unreadable],
      [keywords |-> DefaultKeywords, logfile |-> Readable(<<LineWarnLowMemory>>)],
      [keywords |-> DefaultKeywords, logfile |-> Readable(<<LineAllGood>>)],
      [keywords |-> <<KwWarnCapital>>, logfile |-> Readable(<<LineWarnLowMemory>>)] }

OldEntry == MetricsEntry(0, Snapshot(QuietHost), Alerts(Snapshot(QuietHost)))

InitialHistories ==
    { AbsentFile, GarbageFile, JsonFile(JArr(<<>>)), JsonFile(Dump(VList(<<OldEntry>>))),
      JsonFile(JObj(<<>>)) }

NoRun ==
    [ tool |-> "none", flags |-> NoFlags, creds |-> [address |-> FALSE, password |-> FALSE],
      keywords |-> <<>>, logfile |-> Unreadable, answers |-> NoAnswers ]

NoEffects ==
    [ reporter |-> FALSE, persist |-> "none", email_called |-> FALSE, smtp_attempts |-> 0,
      emails_sent |-> 0, beeped |-> FALSE, printed |-> {}, failed |-> {},
      exit_status |-> 0 - 1 ]

\* if args.get_email and alerts (metrics tool); if args.get_email (log tool)
EmailWanted(tool, flags, alerts) ==
    flags.get_email /\ (tool = "log" \/ alerts # <<>>)

\* if args.get_beep and alerts (metrics tool);
\* if args.get_beep: if any(counts[k] > 0 for k in alert_keywords) (log tool)
BeepWanted(tool, flags, alerts, counts) ==
    /\ flags.get_beep
    /\ IF tool = "log"
       THEN \E i \in 1..Len(alert_keywords) : CounterGet(counts, alert_keywords[i]) > 0
       ELSE alerts # <<>>

\* The entry the running tool appends to the history.
Entry ==
    IF run.tool = "log" THEN LogEntry(clock, run.keywords, run_summary)
    ELSE MetricsEntry(clock, run_summary, run_alerts)

RunStart ==
    /\ pc = "idle"
    /\ run = NoRun
    /\ run_summary = <<>>
    /\ run_alerts = <<>>
    /\ run_counts = EmptyCounter
    /\ history \in InitialHistories
    /\ history0 = history
    /\ before = history
    /\ clock = 0
    /\ fx = NoEffects
    /\ appended = <<>>
    /\ saves = 0
    /\ monitor_log = 0

CanStart == pc = "idle" /\ clock < MaxRuns

\* parse_args of either tool: --get-email without --recipient is a usage
\* error, exit status 2, before anything else runs.
UsageError ==
    /\ CanStart
    /\ \E tool \in {"metrics", "log"}, flags \in Flags : \E creds \in CredentialsFor(flags) :
          /\ ~ArgsValid(flags)
          /\ run' = [NoRun EXCEPT !.tool = tool, !.flags = flags, !.creds = creds]
    /\ pc' = "exited"
    /\ fx' = [NoEffects EXCEPT !.exit_status = 2]
    /\ run_summary' = <<>>
    /\ run_alerts' = <<>>
    /\ run_counts' = EmptyCounter
    /\ clock' = clock + 1
    /\ UNCHANGED <<history, history0, before, appended, saves, monitor_log, ms_vars, sc_vars>>

\* log_analyzer.py main: parse_args, then monitor_system.
StartMetrics ==
    /\ CanStart
    /\ \E flags \in Flags, answers \in RunAnswers : \E creds \in CredentialsFor(flags) :
          /\ ArgsValid(flags)
          /\ run' = [NoRun EXCEPT !.tool = "metrics", !.flags = flags, !.creds = creds,
                                  !.keywords = DefaultKeywords, !.answers = answers]
          /\ run_summary' = Snapshot(answers)
          /\ run_alerts' = Alerts(Snapshot(answers))
          /\ saves' = IF flags.save_summary THEN saves + 1 ELSE saves
    /\ run_counts' = EmptyCounter
    /\ fx' = [NoEffects EXCEPT !.reporter = TRUE]
    /\ pc' = "persist"
    /\ clock' = clock + 1
    /\ UNCHANGED <<history, history0, before, appended, monitor_log, ms_vars, sc_vars>>

\* log_analyzer_1.py main: parse_args, monitor_system (which appends to the
\* monitor log), then analyze_logs up to the summary; an unreadable log file
\* makes analyze_logs print and return, and main returns after it.
StartLog ==
    /\ CanStart
    /\ \E flags \in Flags, scan \in RunScans : \E creds \in CredentialsFor(flags) :
        LET keywords == scan.keywords
            logfile  == scan.logfile
        IN
          /\ ArgsValid(flags)
          /\ run' = [NoRun EXCEPT !.tool = "log", !.flags = flags, !.creds = creds,
                                  !.keywords = keywords, !.logfile = logfile]
          /\ saves' = IF flags.save_summary THEN saves + 1 ELSE saves
          /\ IF logfile.readable
             THEN LET c == ScanLines(EmptyCounter, ReadLines(logfile.lines), keywords)
                  IN  /\ run_counts' = c
                      /\ run_summary' = Summary(keywords, c)
                      /\ fx' = [NoEffects EXCEPT !.reporter = TRUE]
                      /\ pc' = "persist"
             ELSE /\ run_counts' = EmptyCounter
                  /\ run_summary' = <<>>
                  /\ fx' = [NoEffects EXCEPT !.printed = {"read_error"}, !.exit_status = 0]
                  /\ pc' = "exited"
    /\ run_alerts' = <<>>
    /\ monitor_log' = monitor_log + 1
    /\ clock' = clock + 1
    /\ UNCHANGED <<history, history0, before, appended, ms_vars, sc_vars>>

\* if args.save_summary: read summary.json, append the entry, write it back.
\* Nothing around the block catches what open() or existing.append raises.
Persist ==
    /\ pc = "persist"
    /\ IF ~run.flags.save_summary
       THEN /\ pc' = "email"
            /\ UNCHANGED <<history, before, fx, appended>>
       ELSE \E io \in {"ok", "read_denied", "write_denied"} :
              /\ io = "read_denied" => history.exists
              /\ before' = history
              /\ IF io = "ok" /\ IsList(LoadExisting(history))
                 THEN /\ history' = Persisted(LoadExisting(history), Entry)
                      /\ appended' = Append(appended, Entry)
                      /\ fx' = [fx EXCEPT !.persist = "done"]
                      /\ pc' = "email"
                 ELSE /\ fx' = [fx EXCEPT !.persist = IF io = "ok" THEN "crashed" ELSE io,
                                          !.failed = @ \cup {"persist"},
                                          !.exit_status = 1]
                      /\ pc' = "exited"
                      /\ UNCHANGED <<history, appended>>
    /\ UNCHANGED <<run, run_summary, run_alerts, run_counts, history0, clock, saves,
                   monitor_log, ms_vars, sc_vars>>

\* The email block and send_email.
Notify ==
    /\ pc = "email"
    /\ IF ~EmailWanted(run.tool, run.flags, run_alerts)
       THEN UNCHANGED fx
       ELSE IF CredentialsMissing(run.creds)
       THEN fx' = [fx EXCEPT !.email_called = TRUE, !.printed = @ \cup {"config_missing"}]
       ELSE \E delivered \in BOOLEAN :
              fx' = IF delivered
                    THEN [fx EXCEPT !.email_called = TRUE, !.smtp_attempts = @ + 1,
                                    !.emails_sent = @ + 1, !.printed = @ \cup {"email_sent"}]
                    ELSE [fx EXCEPT !.email_called = TRUE, !.smtp_attempts = @ + 1,
                                    !.printed = @ \cup {"delivery_failed"},
                                    !.failed = @ \cup {"email"}]
    /\ pc' = "beep"
    /\ UNCHANGED <<run, run_summary, run_alerts, run_counts, history, history0, before, clock,
                   appended, saves, monitor_log, ms_vars, sc_vars>>

\* The beep block and beep(); winsound.Beep may raise, print does not.  The
\* tool then returns from main.
Alert ==
    /\ pc = "beep"
    /\ IF ~BeepWanted(run.tool, run.flags, run_alerts, run_counts)
       THEN fx' = [fx EXCEPT !.exit_status = 0]
       ELSE \E sounds \in BOOLEAN :
              fx' = IF sounds
                    THEN [fx EXCEPT !.beeped = TRUE, !.exit_status = 0]
                    ELSE [fx EXCEPT !.failed = @ \cup {"beep"}, !.exit_status = 1]
    /\ pc' = "exited"
    /\ UNCHANGED <<run, run_summary, run_alerts, run_counts, history, history0, before, clock,
                   appended, saves, monitor_log, ms_vars, sc_vars>>

\* The process is gone: what it held in memory goes with it, summary.json
\* stays.
ProcessEnd ==
    /\ pc = "exited"
    /\ pc' = "idle"
    /\ run' = NoRun
    /\ run_summary' = <<>>
    /\ run_alerts' = <<>>
    /\ run_counts' = EmptyCounter
    /\ fx' = NoEffects
    /\ before' = history
    /\ UNCHANGED <<history, history0, clock, appended, saves, monitor_log, ms_vars, sc_vars>>

-----------------------------------------------------------------------------
(* The three specifications *)

EvalIdle ==
    /\ ms_pc = "off"
    /\ ms_raw = NoAnswers
    /\ ms_summary = NoSummary
    /\ ms_alerts = <<>>

ScanIdle ==
    /\ sc_pc = "off"
    /\ sc_file = <<>>
    /\ sc_keywords = <<>>
    /\ sc_i = 0
    /\ sc_counts = EmptyCounter
    /\ sc_percent = <<>>
    /\ sc_summary = <<>>

RunIdle ==
    /\ pc = "off"
    /\ run = NoRun
    /\ run_summary = <<>>
    /\ run_alerts = <<>>
    /\ run_counts = EmptyCounter
    /\ history = AbsentFile
    /\ history0 = AbsentFile
    /\ before = AbsentFile
    /\ clock = 0
    /\ fx = NoEffects
    /\ appended = <<>>
    /\ saves = 0
    /\ monitor_log = 0

Init == EvalIdle /\ ScanIdle /\ RunStart

Next ==
    \/ UsageError
    \/ StartMetrics
    \/ StartLog
    \/ Persist
    \/ Notify
    \/ Alert
    \/ ProcessEnd

Spec == Init /\ [][Next]_vars

InitEval == EvalStart /\ ScanIdle /\ RunIdle

SpecEval == InitEval /\ [][NextEval]_vars

InitScan == EvalIdle /\ ScanStart /\ RunIdle

SpecScan == InitScan /\ [][NextScan]_vars

-----------------------------------------------------------------------------
(* Claims about the reporting of both tools (Spec) *)

\* The file is absent or holds a JSON array.
ValidHistory(file) == ~file.exists \/ (file.parses /\ "jarr" \in DOMAIN file.doc)

\* The records read back from a valid history file.
Records(file) == IF file.exists THEN Load(file.doc).list ELSE <<>>

\* C4, as claimed: from an absent or valid history, every invocation with
\* --save-summary (and a valid command line) leaves exactly one new record
\* after the prior ones.
C4_EveryInvocationAppends ==
    (pc = "exited" /\ ValidHistory(history0)) =>
        /\ ValidHistory(history)
        /\ Len(Records(history)) = Len(Records(history0)) + saves
        /\ SubSeq(Records(history), 1, Len(Records(history0))) = Records(history0)

\* C4, amended: from an absent or valid history, the file always holds one
\* array that reads back as the prior records, unchanged and in order,
\* followed by the entry of every invocation whose persist step ran, in
\* invocation order; an invocation with --save-summary whose log file was
\* readable and which could open summary.json always runs that step.
C4_AppendOnly ==
    ValidHistory(history0) =>
        /\ ValidHistory(history)
        /\ Records(history) = Records(history0) \o appended
        /\ fx.persist # "crashed"
        /\ (pc = "exited" /\ fx.reporter /\ run.flags.save_summary
              /\ fx.persist \notin {"read_denied", "write_denied"}) =>
                 /\ fx.persist = "done"
                 /\ appended # <<>>
                 /\ appended[Len(appended)] = Entry
        /\ fx.persist # "done" => history = before

\* C4 witness: one prior record, then a metrics run and a log run that both
\* saved.
C4_Witness ==
    /\ pc = "exited"
    /\ ValidHistory(history0)
    /\ Len(Records(history0)) = 1
    /\ saves = 2
    /\ Len(appended) = 2
    /\ run.tool = "log"
    /\ fx.persist = "done"
    /\ Records(history) = <<OldEntry, MetricsEntry(1, Snapshot(HotHost), Alerts(Snapshot(HotHost))), Entry>>

\* C5: a history file that exists and is not a valid array (text that does
\* not parse, or a JSON value other than an array) is treated as empty by a
\* persist call that can open it: the call does not fail and leaves a valid
\* array holding the new record alone.
C5_MalformedTreatedAsEmpty ==
    (fx.persist \in {"done", "crashed"} /\ before.exists /\ ~ValidHistory(before)) =>
        /\ fx.persist = "done"
        /\ ValidHistory(history)
        /\ Records(history) = <<Entry>>

\* C6: when a side effect of the Reporter fails, the process still exits 0
\* and every other requested side effect whose condition holds is performed.
C6_FailureIsolated ==
    (pc = "exited" /\ fx.reporter /\ fx.failed # {}) =>
        /\ fx.exit_status = 0
        /\ (run.flags.save_summary /\ "persist" \notin fx.failed) => fx.persist = "done"
        /\ (EmailWanted(run.tool, run.flags, run_alerts) /\ "email" \notin fx.failed)
              => fx.email_called
        /\ (BeepWanted(run.tool, run.flags, run_alerts, run_counts) /\ "beep" \notin fx.failed)
              => fx.beeped

\* C7: a log file that cannot be read is fatal for the log tool's run: no
\* summary, no history record, no email, no beep, and a non-zero exit status.
C7_UnreadableIsFatal ==
    (pc = "exited" /\ run.tool = "log" /\ ArgsValid(run.flags) /\ ~run.logfile.readable) =>
        /\ run_summary = <<>>
        /\ history = before
        /\ fx.persist = "none"
        /\ fx.smtp_attempts = 0
        /\ fx.emails_sent = 0
        /\ ~fx.beeped
        /\ fx.exit_status # 0

\* C8: with --get-email and a recipient but a credential missing, a run that
\* reaches the Reporter sends no email, attempts no connection, prints the
\* condition, exits 0 and still performs the other requested side effects.
C8_MissingCredentialsSkipEmail ==
    (pc = "exited" /\ fx.reporter /\ run.flags.get_email /\ run.flags.recipient
        /\ CredentialsMissing(run.creds)) =>
        /\ fx.emails_sent = 0
        /\ fx.smtp_attempts = 0
        /\ "config_missing" \in fx.printed
        /\ fx.exit_status = 0
        /\ run.flags.save_summary => fx.persist = "done"
        /\ BeepWanted(run.tool, run.flags, run_alerts, run_counts) => fx.beeped

\* The condition set of a run: the alerts of the metrics tool, the configured
\* keywords with a positive count of the log tool.
ConditionSetNonEmpty ==
    IF run.tool = "log"
    THEN \E k \in Range(run.keywords) : CounterGet(run_counts, k) > 0
    ELSE run_alerts # <<>>

\* C10: in a run that ends normally the beep fires exactly when --get-beep
\* was given and the run's condition set is not empty.
C10_BeepIffCondition ==
    (pc = "exited" /\ fx.reporter /\ fx.exit_status = 0) =>
        (fx.beeped <=> (run.flags.get_beep /\ ConditionSetNonEmpty))

====
